---- MODULE Spec2Model ----
(***************************************************************************)
(* A model of statistics_and_trends.py: the accident-records pipeline      *)
(* main() = read_csv, preprocessing, three plots, statistical_analysis,    *)
(* writing.                                                                *)
(*                                                                         *)
(* A table (DataFrame) is [cols, rows]: the set of column names it holds   *)
(* and the sequence of its rows.  Every row carries its index label (idx,  *)
(* the position it had in the file) and one cell per column; the cell of   *)
(* a column the table does not hold is the placeholder of its kind.        *)
(*                                                                         *)
(* A date cell is [k, d, m, y]: k = "text" is the unparsed text split at   *)
(* its dashes, "date" a Timestamp, "nat" NaT, "nan" an empty csv cell,     *)
(* "period" a monthly Period.  A numeric cell is [k, s, n]: k = "text" is  *)
(* the text s (a sequence of characters), "num" the number n, "nan" NaN.   *)
(*                                                                         *)
(* A real number (a moment) is [nan, root, num, den]: not-a-number, or     *)
(* num/den when root is FALSE, or sign(num)*sqrt(|num|/den) when root is   *)
(* TRUE; den > 0.  The arithmetic is exact, which is what the floating     *)
(* point computation yields on the small integer columns drawn here.       *)
(***************************************************************************)
EXTENDS Integers, Sequences

\* pc       the statement of main (or of the calling sequence) that runs next
\* csv      the table as pd.read_csv read it; never changed, kept for reference
\* arg      the table object handed to preprocessing, which assigns into it
\* df       main's df once preprocessing has returned: the cleaned table
\* prev     the table handed to a second preprocessing call, as it was before
\* moments  main's moments: (mean, stddev, skew, excess_kurtosis)
\* console  the lines printed so far
\* files    the plot files saved so far
\* err      the exception that ended the run, "none" while there is none
VARIABLES pc, csv, arg, df, prev, moments, console, files, err

vars == <<pc, csv, arg, df, prev, moments, console, files, err>>

\* ------------------------------------------------------------------ bounds
MaxRows == 3
MaxLen == 5
MaxCasualties == 3

\* ------------------------------------------------------------- column names
AccidentDate == "Accident Date"
AccidentSeverity == "Accident_Severity"
NumberOfCasualties == "Number_of_Casualties"
NumberOfVehicles == "Number_of_Vehicles"
LightConditions == "Light_Conditions"
SeverityNum == "Severity_Num"
YearMonth == "YearMonth"

RequiredColumns ==
  {AccidentDate, AccidentSeverity, NumberOfCasualties, NumberOfVehicles, LightConditions}

\* -------------------------------------------------------------------- cells
DateText(d, m, y) == [k |-> "text", d |-> d, m |-> m, y |-> y]
Timestamp(d, m, y) == [k |-> "date", d |-> d, m |-> m, y |-> y]
Period(m, y) == [k |-> "period", d |-> 0, m |-> m, y |-> y]
NaT == [k |-> "nat", d |-> 0, m |-> 0, y |-> 0]
NoDate == [k |-> "nan", d |-> 0, m |-> 0, y |-> 0]
AbsentDate == [k |-> "absent", d |-> 0, m |-> 0, y |-> 0]

NumText(s) == [k |-> "text", s |-> s, n |-> 0]
Num(n) == [k |-> "num", s |-> <<>>, n |-> n]
NaN == [k |-> "nan", s |-> <<>>, n |-> 0]
AbsentNum == [k |-> "absent", s |-> <<>>, n |-> 0]

Missing == "<NA>"
Absent == "<absent>"

\* ------------------------------------------------------------ pd.to_datetime
IsLeap(y) == y % 4 = 0 /\ (y % 100 # 0 \/ y % 400 = 0)

DaysInMonth(m, y) ==
  IF m \in {4, 6, 9, 11} THEN 30
  ELSE IF m = 2 THEN (IF IsLeap(y) THEN 29 ELSE 28)
  ELSE 31

ValidDate(d, m, y) ==
  /\ y >= 1
  /\ m \in 1..12
  /\ d >= 1
  /\ d <= DaysInMonth(m, y)

ToDatetimeReparse(c) ==
  IF c.k = "text" /\ ValidDate(c.d, c.m, c.y) THEN Timestamp(c.d, c.m, c.y) ELSE NaT

\* format='%d-%m-%Y', errors='coerce': text that is no calendar date, and a
\* missing value, become NaT; a value that is a Timestamp already is kept.
ToDatetime(c) ==
  IF c.k = "text"
  THEN IF ValidDate(c.d, c.m, c.y) THEN Timestamp(c.d, c.m, c.y) ELSE NaT
  ELSE IF c.k = "date" THEN c
  ELSE NaT

\* -------------------------------------------------------------- pd.to_numeric
Digits == {"0", "1", "2", "3", "4", "5", "6", "7", "8", "9"}

DigitValue(ch) ==
  CASE ch = "0" -> 0 [] ch = "1" -> 1 [] ch = "2" -> 2 [] ch = "3" -> 3
    [] ch = "4" -> 4 [] ch = "5" -> 5 [] ch = "6" -> 6 [] ch = "7" -> 7
    [] ch = "8" -> 8 [] ch = "9" -> 9

IsNumeral(s) == Len(s) > 0 /\ \A i \in 1..Len(s) : s[i] \in Digits

RECURSIVE NumeralValue(_)
NumeralValue(s) ==
  IF Len(s) = 0 THEN 0
  ELSE 10 * NumeralValue(SubSeq(s, 1, Len(s) - 1)) + DigitValue(s[Len(s)])

\* errors='coerce': text that is no number, and a missing value, become NaN;
\* a value that is a number already is kept.
ToNumeric(c) ==
  IF c.k = "text"
  THEN IF IsNumeral(c.s) THEN Num(NumeralValue(c.s)) ELSE NaN
  ELSE IF c.k = "num" THEN c
  ELSE NaN

\* ------------------------------------------------------------------- tables
MakeRow(i, date, cas, veh, sev, light) ==
  [idx |-> i, date |-> date, cas |-> cas, veh |-> veh, sev |-> sev,
   light |-> light, sevnum |-> AbsentNum, ym |-> AbsentDate]

NoTable == [cols |-> {}, rows |-> <<>>]

IsNull(r, c) ==
  CASE c = AccidentDate -> r.date.k \in {"nat", "nan"}
    [] c = NumberOfCasualties -> r.cas.k = "nan"
    [] c = NumberOfVehicles -> r.veh.k = "nan"
    [] c = AccidentSeverity -> r.sev = Missing
    [] c = LightConditions -> r.light = Missing
    [] c = SeverityNum -> r.sevnum.k = "nan"
    [] c = YearMonth -> r.ym.k \in {"nat", "nan"}

DropSubsetNoDate == {NumberOfCasualties, NumberOfVehicles}

DropSubset == {NumberOfCasualties, NumberOfVehicles, AccidentDate}

dropna_any(t, subset) ==
  [t EXCEPT !.rows = SelectSeq(t.rows, LAMBDA r : \A c \in t.cols : ~IsNull(r, c))]

\* DataFrame.dropna(subset=...): a new table holding, in order and under their
\* index labels, the rows with no null in the columns of subset.
dropna(t, subset) ==
  [t EXCEPT !.rows = SelectSeq(t.rows, LAMBDA r : \A c \in subset : ~IsNull(r, c))]

SeverityMapSwapped(label) ==
  CASE label = "Slight" -> Num(1)
    [] label = "Serious" -> Num(3)
    [] label = "Fatal" -> Num(2)
    [] OTHER -> Num(1)

\* Series.map of the dict: a label that is no key of it maps to NaN.
SeverityMap(label) ==
  CASE label = "Slight" -> Num(1)
    [] label = "Serious" -> Num(2)
    [] label = "Fatal" -> Num(3)
    [] OTHER -> NaN

\* ------------------------------------------------------------ preprocessing
\* df['Accident Date'] = pd.to_datetime(df['Accident Date'], ...)
ConvertDate(t) ==
  [t EXCEPT !.rows = [i \in 1..Len(t.rows) |->
                        [t.rows[i] EXCEPT !.date = ToDatetime(t.rows[i].date)]]]

\* df['Number_of_Casualties'] = pd.to_numeric(df['Number_of_Casualties'], ...)
ConvertCasualties(t) ==
  [t EXCEPT !.rows = [i \in 1..Len(t.rows) |->
                        [t.rows[i] EXCEPT !.cas = ToNumeric(t.rows[i].cas)]]]

\* df['Number_of_Vehicles'] = pd.to_numeric(df['Number_of_Vehicles'], ...)
ConvertVehicles(t) ==
  [t EXCEPT !.rows = [i \in 1..Len(t.rows) |->
                        [t.rows[i] EXCEPT !.veh = ToNumeric(t.rows[i].veh)]]]

\* df['Severity_Num'] = df['Accident_Severity'].map({...})
EncodeSeverity(t) ==
  [cols |-> t.cols \cup {SeverityNum},
   rows |-> [i \in 1..Len(t.rows) |->
               [t.rows[i] EXCEPT !.sevnum = SeverityMap(t.rows[i].sev)]]]

Summary == << <<"describe">>, <<"corr">> >>

KeyError(t) == [raised |-> "KeyError", arg |-> t, ret |-> NoTable, out |-> <<>>]

preprocessing_inplace(t) ==
  LET r == EncodeSeverity(dropna(ConvertVehicles(ConvertCasualties(ConvertDate(t))),
                                 DropSubset))
  IN  IF {AccidentDate, NumberOfCasualties, NumberOfVehicles, AccidentSeverity}
            \subseteq t.cols
      THEN [raised |-> "none", arg |-> r, ret |-> r, out |-> Summary]
      ELSE KeyError(t)

preprocessing_strict(t) ==
  LET t3 == ConvertVehicles(ConvertCasualties(ConvertDate(t)))
  IN  IF RequiredColumns \subseteq t.cols
      THEN [raised |-> "none", arg |-> t3,
            ret |-> EncodeSeverity(dropna(t3, DropSubset)), out |-> Summary]
      ELSE KeyError(t)

\* preprocessing(df): what the call raises, the caller's table object after
\* the call (arg: the three conversions are assigned into it), the table it
\* returns (ret: dropna's new table, which alone gets Severity_Num) and what
\* it prints.  A column that is read and is not there raises KeyError at the
\* statement that reads it, after the statements before it have run.
preprocessing(t) ==
  LET t1 == ConvertDate(t)
      t2 == ConvertCasualties(t1)
      t3 == ConvertVehicles(t2)
      d  == dropna(t3, DropSubset)
  IN  IF AccidentDate \notin t.cols THEN KeyError(t)
      ELSE IF NumberOfCasualties \notin t.cols THEN KeyError(t1)
      ELSE IF NumberOfVehicles \notin t.cols THEN KeyError(t2)
      ELSE IF AccidentSeverity \notin t.cols THEN KeyError(t3)
      ELSE [raised |-> "none", arg |-> t3, ret |-> EncodeSeverity(d), out |-> Summary]

\* ------------------------------------------------------------- real numbers
Rat(num, den) == [nan |-> FALSE, root |-> FALSE, num |-> num, den |-> den]
Root(num, den) == [nan |-> FALSE, root |-> TRUE, num |-> num, den |-> den]
NotANumber == [nan |-> TRUE, root |-> FALSE, num |-> 0, den |-> 1]

Abs(i) == IF i < 0 THEN -i ELSE i

\* x > p/q and x < p/q as floating point decides them (q > 0): every
\* comparison with not-a-number is false.
Gt(x, p, q) ==
  /\ ~x.nan
  /\ IF ~x.root THEN x.num * q > p * x.den
     ELSE IF p >= 0 THEN x.num > 0 /\ x.num * q * q > p * p * x.den
     ELSE x.num >= 0 \/ Abs(x.num) * q * q < p * p * x.den

Lt(x, p, q) ==
  /\ ~x.nan
  /\ IF ~x.root THEN x.num * q < p * x.den
     ELSE IF p <= 0 THEN x.num < 0 /\ Abs(x.num) * q * q > p * p * x.den
     ELSE x.num <= 0 \/ x.num * q * q < p * p * x.den

IsZero(x) == ~x.nan /\ x.num = 0

\* --------------------------------------------------------- statistical_analysis
NumCell(r, col) ==
  CASE col = NumberOfCasualties -> r.cas
    [] col = NumberOfVehicles -> r.veh
    [] col = SeverityNum -> r.sevnum

\* the column as the sequence of its cells
Column(t, col) ==
  IF Len(t.rows) = 0 THEN <<>> ELSE [i \in 1..Len(t.rows) |-> NumCell(t.rows[i], col)]

\* the numbers of the column, nulls skipped (pandas' skipna=True)
Values(cells) ==
  LET kept == SelectSeq(cells, LAMBDA c : c.k = "num")
  IN  IF Len(kept) = 0 THEN <<>> ELSE [i \in 1..Len(kept) |-> kept[i].n]

HasNull(cells) == \E i \in 1..Len(cells) : cells[i].k # "num"

RECURSIVE Sum(_)
Sum(xs) == IF Len(xs) = 0 THEN 0 ELSE xs[1] + Sum(Tail(xs))

RECURSIVE Power(_, _)
Power(b, e) == IF e = 0 THEN 1 ELSE b * Power(b, e - 1)

\* sum over i of (n*x[i] - sum(x))^e: n^e times the e-th central sum
CentralSum(xs, e) ==
  LET n == Len(xs)
      s == Sum(xs)
  IN  Sum([i \in 1..n |-> Power(n * xs[i] - s, e)])

Sign(i) == IF i > 0 THEN 1 ELSE IF i < 0 THEN -1 ELSE 0

\* Series.mean(): NaN for no value
Mean(cells) ==
  LET xs == Values(cells)
  IN  IF Len(xs) = 0 THEN NotANumber ELSE Rat(Sum(xs), Len(xs))

StdZero(cells) ==
  LET xs == Values(cells)
      n == Len(xs)
  IN  IF n < 2 THEN Rat(0, 1) ELSE Root(CentralSum(xs, 2), n * n * (n - 1))

\* Series.std(): ddof=1, NaN for fewer than two values
Std(cells) ==
  LET xs == Values(cells)
      n == Len(xs)
  IN  IF n < 2 THEN NotANumber ELSE Root(CentralSum(xs, 2), n * n * (n - 1))

SkewZero(cells) ==
  LET xs == Values(cells)
      n == Len(xs)
      m2 == CentralSum(xs, 2)
      m3 == CentralSum(xs, 3)
  IN  IF HasNull(cells) \/ n = 0 THEN NotANumber
      ELSE IF m2 = 0 THEN Rat(0, 1)
      ELSE Root(Sign(m3) * n * m3 * m3, m2 * m2 * m2)

\* scipy.stats.skew: m3 / m2^1.5 with biased moments; NaN propagates, and the
\* result is NaN for no value and (SciPy 1.9 and later) for zero variance.
Skew(cells) ==
  LET xs == Values(cells)
      n == Len(xs)
      m2 == CentralSum(xs, 2)
      m3 == CentralSum(xs, 3)
  IN  IF HasNull(cells) \/ n = 0 THEN NotANumber
      ELSE IF m2 = 0 THEN NotANumber
      ELSE Root(Sign(m3) * n * m3 * m3, m2 * m2 * m2)

\* scipy.stats.kurtosis: m4 / m2^2 - 3 (Fisher), the same convention.
Kurtosis(cells) ==
  LET xs == Values(cells)
      n == Len(xs)
      m2 == CentralSum(xs, 2)
      m4 == CentralSum(xs, 4)
  IN  IF HasNull(cells) \/ n = 0 THEN NotANumber
      ELSE IF m2 = 0 THEN NotANumber
      ELSE Rat(n * m4 - 3 * m2 * m2, m2 * m2)

NoMoments == [mean |-> NotANumber, stddev |-> NotANumber, skew |-> NotANumber,
              excess_kurtosis |-> NotANumber, set |-> FALSE]

statistical_analysis(t, col) ==
  [mean |-> Mean(Column(t, col)),
   stddev |-> Std(Column(t, col)),
   skew |-> Skew(Column(t, col)),
   excess_kurtosis |-> Kurtosis(Column(t, col)),
   set |-> TRUE]

\* ------------------------------------------------------------------ writing
SkewTypeInclusive(skewness) ==
  IF ~Lt(skewness, 1, 2) /\ ~skewness.nan THEN "right skewed"
  ELSE IF ~Gt(skewness, -1, 2) /\ ~skewness.nan THEN "left skewed"
  ELSE "approximately symmetric"

SkewType(skewness) ==
  IF Gt(skewness, 1, 2) THEN "right skewed"
  ELSE IF Lt(skewness, -1, 2) THEN "left skewed"
  ELSE "approximately symmetric"

KurtosisType(excess_kurtosis) ==
  IF Gt(excess_kurtosis, 0, 1) THEN "leptokurtic"
  ELSE IF Lt(excess_kurtosis, 0, 1) THEN "platykurtic"
  ELSE "mesokurtic"

\* the three lines writing prints
writing(m, col) ==
  << <<"For the attribute", col>>,
     <<"Mean, Standard Deviation, Skewness, Excess Kurtosis">>,
     <<"The distribution is", SkewType(m.skew), KurtosisType(m.excess_kurtosis)>> >>

\* ------------------------------------------------------------------- inputs
GoodDate == DateText(15, 3, 2021)

\* the rows a file is drawn from: one valid row per casualty count and per
\* severity label, and one row per way of being invalid or incomplete
FileRows ==
  {MakeRow(0, GoodDate, NumText(c), NumText(<<"1", "2">>), "Slight", "Daylight") :
      c \in {<<"1">>, <<"3">>, <<"x">>}}
  \cup {MakeRow(0, GoodDate, NumText(<<"1">>), NumText(<<"1", "2">>), l, "Daylight") :
      l \in {"Serious", "Fatal", "Minor"}}
  \cup {MakeRow(0, d, NumText(<<"1">>), NumText(<<"1", "2">>), "Slight", "Daylight") :
      d \in {DateText(31, 13, 2021), DateText(30, 2, 2021), NoDate}}
  \cup {MakeRow(0, GoodDate, NumText(<<"1">>), NumText(<<"x">>), "Slight", "Daylight"),
        MakeRow(0, GoodDate, NumText(<<"3">>), NumText(<<"1", "2">>), "Slight", Missing)}

SeqsUpTo(S, n) == UNION {[1..k -> S] : k \in 0..n}

\* a row of a file that has no column c
WithoutColumn(r, c) ==
  CASE c = AccidentDate -> [r EXCEPT !.date = AbsentDate]
    [] c = NumberOfCasualties -> [r EXCEPT !.cas = AbsentNum]
    [] c = NumberOfVehicles -> [r EXCEPT !.veh = AbsentNum]
    [] c = AccidentSeverity -> [r EXCEPT !.sev = Absent]
    [] c = LightConditions -> [r EXCEPT !.light = Absent]

Indexed(rs) ==
  IF Len(rs) = 0 THEN <<>> ELSE [i \in 1..Len(rs) |-> [rs[i] EXCEPT !.idx = i]]

\* pd.read_csv of a file with every required column
FullFiles ==
  {[cols |-> RequiredColumns, rows |-> Indexed(rs)] : rs \in SeqsUpTo(FileRows, MaxRows)}

\* ... and of a file that lacks one of them
FilesLacking ==
  {[cols |-> RequiredColumns \ {c},
    rows |-> [i \in 1..Len(f.rows) |-> WithoutColumn(f.rows[i], c)]] :
      f \in FullFiles, c \in RequiredColumns}

Files == FullFiles \cup FilesLacking

\* a cleaned table whose Number_of_Casualties column is xs
CleanTable(xs) ==
  [cols |-> RequiredColumns \cup {SeverityNum},
   rows |-> IF Len(xs) = 0 THEN <<>>
            ELSE [i \in 1..Len(xs) |->
                   [idx |-> i, date |-> Timestamp(15, 3, 2021), cas |-> Num(xs[i]),
                    veh |-> Num(12), sev |-> "Slight", light |-> "Daylight",
                    sevnum |-> Num(1), ym |-> AbsentDate]]]

CleanTables == {CleanTable(xs) : xs \in SeqsUpTo(1..MaxCasualties, MaxLen)}

\* moments tuples handed to writing directly, the boundaries of its rules among them
MomentSamples ==
  [mean : {Rat(2, 1), NotANumber},
   stddev : {Root(0, 1), Root(2, 1), NotANumber},
   skew : {NotANumber, Rat(0, 1), Rat(1, 2), Rat(-1, 2), Rat(51, 100), Rat(-51, 100),
           Rat(49, 100), Rat(-49, 100), Root(1, 4), Root(-1, 4), Root(1, 2),
           Root(-1, 2), Rat(2, 1), Rat(-2, 1)},
   excess_kurtosis : {NotANumber, Rat(0, 1), Rat(0, 4), Rat(1, 100), Rat(-1, 100),
                      Rat(-3, 2), Rat(3, 1)},
   set : {TRUE}]

\* --------------------------------------------------------------------- main
NextStageMomentsFirst(s) ==
  CASE s = "ingest" -> "preprocess"
    [] s = "preprocess" -> "analysis"
    [] s = "analysis" -> "writing"
    [] s = "writing" -> "relational"
    [] s = "relational" -> "statistical"
    [] s = "statistical" -> "categorical"
    [] s = "categorical" -> "done"

\* the statement of main that follows statement s
NextStage(s) ==
  CASE s = "ingest" -> "preprocess"
    [] s = "preprocess" -> "relational"
    [] s = "relational" -> "statistical"
    [] s = "statistical" -> "categorical"
    [] s = "categorical" -> "analysis"
    [] s = "analysis" -> "writing"
    [] s = "writing" -> "done"

\* col = 'Number_of_Casualties'
col == NumberOfCasualties

\* an uncaught exception ends the run
Fail(e) ==
  /\ pc' = "failed"
  /\ err' = e

Init ==
  /\ pc = "ingest"
  /\ csv \in Files
  /\ arg = NoTable
  /\ df = NoTable
  /\ prev = NoTable
  /\ moments = NoMoments
  /\ console = <<>>
  /\ files = {}
  /\ err = "none"

\* df = pd.read_csv('data.csv')
Ingest ==
  /\ pc = "ingest"
  /\ \/ /\ arg' = csv
        /\ pc' = NextStage(pc)
        /\ UNCHANGED err
     \/ /\ Fail("FileNotFoundError")
        /\ UNCHANGED arg
  /\ UNCHANGED <<csv, df, prev, moments, console, files>>

\* df = preprocessing(df)
Preprocessing ==
  /\ pc = "preprocess"
  /\ LET r == preprocessing(arg)
     IN  /\ arg' = r.arg
         /\ IF r.raised = "none"
            THEN /\ df' = r.ret
                 /\ console' = console \o r.out
                 /\ pc' = NextStage(pc)
                 /\ UNCHANGED err
            ELSE /\ Fail(r.raised)
                 /\ UNCHANGED <<df, console>>
  /\ UNCHANGED <<csv, prev, moments, files>>

\* df['YearMonth'] = df['Accident Date'].dt.to_period('M')
AddYearMonth(t) ==
  [cols |-> t.cols \cup {YearMonth},
   rows |-> [i \in 1..Len(t.rows) |->
               [t.rows[i] EXCEPT !.ym =
                  IF t.rows[i].date.k = "date"
                  THEN Period(t.rows[i].date.m, t.rows[i].date.y) ELSE NaT]]]

\* plot_relational_plot(df): the table gets its YearMonth column, then the
\* figure is saved, which the file system may refuse
PlotRelational ==
  /\ pc = "relational"
  /\ IF AccidentDate \in df.cols
     THEN /\ df' = AddYearMonth(df)
          /\ \/ /\ files' = files \cup {"relational_plot.png"}
                /\ pc' = NextStage(pc)
                /\ UNCHANGED err
             \/ /\ Fail("OSError")
                /\ UNCHANGED files
     ELSE /\ Fail("KeyError")
          /\ UNCHANGED <<df, files>>
  /\ UNCHANGED <<csv, arg, prev, moments, console>>

\* plot_statistical_plot(df)
PlotStatistical ==
  /\ pc = "statistical"
  /\ IF {NumberOfCasualties, NumberOfVehicles, SeverityNum} \subseteq df.cols
     THEN \/ /\ files' = files \cup {"statistical_plot.png"}
             /\ pc' = NextStage(pc)
             /\ UNCHANGED err
          \/ /\ Fail("OSError")
             /\ UNCHANGED files
     ELSE /\ Fail("KeyError")
          /\ UNCHANGED files
  /\ UNCHANGED <<csv, arg, df, prev, moments, console>>

\* plot_categorical_plot(df): seaborn raises ValueError for an x that names
\* no column of the data
PlotCategorical ==
  /\ pc = "categorical"
  /\ IF LightConditions \in df.cols
     THEN \/ /\ files' = files \cup {"categorical_plot.png"}
             /\ pc' = NextStage(pc)
             /\ UNCHANGED err
          \/ /\ Fail("OSError")
             /\ UNCHANGED files
     ELSE /\ Fail("ValueError")
          /\ UNCHANGED files
  /\ UNCHANGED <<csv, arg, df, prev, moments, console>>

\* moments = statistical_analysis(df, col)
StatisticalAnalysis ==
  /\ pc = "analysis"
  /\ IF col \in df.cols
     THEN /\ moments' = statistical_analysis(df, col)
          /\ pc' = NextStage(pc)
          /\ UNCHANGED err
     ELSE /\ Fail("KeyError")
          /\ UNCHANGED moments
  /\ UNCHANGED <<csv, arg, df, prev, console, files>>

\* writing(moments, col)
Writing ==
  /\ pc = "writing"
  /\ console' = console \o writing(moments, col)
  /\ pc' = NextStage(pc)
  /\ UNCHANGED <<csv, arg, df, prev, moments, files, err>>

Next ==
  \/ Ingest
  \/ Preprocessing
  \/ PlotRelational
  \/ PlotStatistical
  \/ PlotCategorical
  \/ StatisticalAnalysis
  \/ Writing

Spec == Init /\ [][Next]_vars

\* ------------------------------------------- preprocessing called twice
InitTwice ==
  /\ pc = "first"
  /\ csv \in FullFiles
  /\ arg = csv
  /\ df = NoTable
  /\ prev = NoTable
  /\ moments = NoMoments
  /\ console = <<>>
  /\ files = {}
  /\ err = "none"

\* df = preprocessing(df) on the table read from the file
First ==
  /\ pc = "first"
  /\ LET r == preprocessing(arg)
     IN  /\ arg' = r.arg
         /\ df' = r.ret
         /\ console' = console \o r.out
         /\ IF r.raised = "none" THEN pc' = "second" /\ UNCHANGED err
                                 ELSE Fail(r.raised)
  /\ UNCHANGED <<csv, prev, moments, files>>

\* df = preprocessing(df) again, on the table the first call returned: prev
\* keeps that table as it was, arg is the same object after the call
Second ==
  /\ pc = "second"
  /\ prev' = df
  /\ LET r == preprocessing(df)
     IN  /\ arg' = r.arg
         /\ df' = r.ret
         /\ console' = console \o r.out
         /\ IF r.raised = "none" THEN pc' = "twice" /\ UNCHANGED err
                                 ELSE Fail(r.raised)
  /\ UNCHANGED <<csv, moments, files>>

NextTwice == First \/ Second

SpecTwice == InitTwice /\ [][NextTwice]_vars

\* ------------------------- statistical_analysis and writing on drawn inputs
InitStats ==
  /\ \/ /\ pc = "analysis"
        /\ df \in CleanTables
        /\ moments = NoMoments
     \/ /\ pc = "writing"
        /\ df = NoTable
        /\ moments \in MomentSamples
  /\ csv = NoTable
  /\ arg = NoTable
  /\ prev = NoTable
  /\ console = <<>>
  /\ files = {}
  /\ err = "none"

NextStats == StatisticalAnalysis \/ Writing

SpecStats == InitStats /\ [][NextStats]_vars

\* =================================================================== claims
\* preprocessing has returned a table to main
Returned == df.cols # {}

\* the row of the file as read that a row of a later table comes from
Original(r) == csv.rows[r.idx]

\* the file's row converts to a value in each of the three critical columns
Converts(o) ==
  /\ ToDatetime(o.date).k = "date"
  /\ ToNumeric(o.cas).k = "num"
  /\ ToNumeric(o.veh).k = "num"

IndexLabels(rows) == IF Len(rows) = 0 THEN <<>> ELSE [i \in 1..Len(rows) |-> rows[i].idx]

\* C1: every row of the table preprocessing returns has an 'Accident Date'
\* that parsed under day-month-year (a Timestamp of a calendar date, read from
\* text that is one) and a number in 'Number_of_Casualties' and in
\* 'Number_of_Vehicles'; no row is kept with NaT or NaN there.
C1_CleanRowsValid ==
  Returned =>
    \A i \in 1..Len(df.rows) :
      LET r == df.rows[i]
          o == Original(r)
      IN  /\ r.date.k = "date"
          /\ ValidDate(r.date.d, r.date.m, r.date.y)
          /\ o.date = DateText(r.date.d, r.date.m, r.date.y)
          /\ r.cas.k = "num"
          /\ r.veh.k = "num"
          /\ o.cas.k = "text" /\ IsNumeral(o.cas.s)
          /\ o.veh.k = "text" /\ IsNumeral(o.veh.s)

C1_Witness ==
  /\ Returned
  /\ Len(df.rows) = 2
  /\ Len(csv.rows) = 3
  /\ \E i \in 1..3 : csv.rows[i].date = DateText(31, 13, 2021)

\* C2: in the table preprocessing returns, Severity_Num is 1 for 'Slight', 2
\* for 'Serious', 3 for 'Fatal' and missing (NaN) for every other label, and a
\* file row with another label that converts in the three critical columns is
\* kept in the table.
C2_SeverityEncoded ==
  Returned =>
    /\ SeverityNum \in df.cols
    /\ \A i \in 1..Len(df.rows) :
         LET r == df.rows[i]
         IN  /\ r.sev = "Slight" => r.sevnum = Num(1)
             /\ r.sev = "Serious" => r.sevnum = Num(2)
             /\ r.sev = "Fatal" => r.sevnum = Num(3)
             /\ r.sev \notin {"Slight", "Serious", "Fatal"} => r.sevnum = NaN
    /\ \A j \in 1..Len(csv.rows) :
         (Converts(csv.rows[j]) /\ csv.rows[j].sev \notin {"Slight", "Serious", "Fatal"})
           => \E i \in 1..Len(df.rows) :
                df.rows[i].idx = j /\ df.rows[i].sev = csv.rows[j].sev

C2_Witness ==
  /\ Returned
  /\ Len(df.rows) = 3
  /\ df.rows[1].sev = "Minor" /\ df.rows[1].sevnum = NaN
  /\ df.rows[2].sev = "Fatal" /\ df.rows[2].sevnum = Num(3)
  /\ df.rows[3].sev = "Serious" /\ df.rows[3].sevnum = Num(2)

\* C3: the rows of the table preprocessing returns are exactly the file's rows
\* that convert in all three critical columns, each once and in the file's
\* order, with no row added and their other columns as in the file; so the
\* table has at most as many rows as the file.
C3_OnlyInvalidRowsRemoved ==
  Returned =>
    /\ IndexLabels(df.rows) = IndexLabels(SelectSeq(csv.rows, Converts))
    /\ Len(df.rows) <= Len(csv.rows)
    /\ \A i \in 1..Len(df.rows) :
         /\ df.rows[i].sev = Original(df.rows[i]).sev
         /\ df.rows[i].light = Original(df.rows[i]).light

C3_Witness ==
  /\ Returned
  /\ Len(csv.rows) = 3
  /\ IndexLabels(df.rows) = <<1, 3>>
  /\ df.rows[2].light = Missing
  /\ csv.rows[2].cas = NumText(<<"x">>)

\* C4: preprocessing the table a first preprocessing returned gives that table
\* again: no row goes, and every row keeps its Severity_Num (NaN included),
\* its date and its two numbers.
C4_Idempotent ==
  pc = "twice" =>
    /\ Len(df.rows) = Len(prev.rows)
    /\ df = prev

C4_Witness ==
  /\ pc = "twice"
  /\ Len(csv.rows) = 3
  /\ Len(prev.rows) = 2
  /\ Len(df.rows) = 2
  /\ df.rows[1].sevnum = NaN
  /\ df.rows[2].sevnum = Num(3)

LastLine == console[Len(console)]

\* C5: writing classifies every moments tuple and raises nothing: skewness
\* above 0.5 is 'right skewed', below -0.5 'left skewed', anything else (0.5,
\* -0.5 and not-a-number among them) 'approximately symmetric'; excess
\* kurtosis above 0 is 'leptokurtic', below 0 'platykurtic', and 0 or
\* not-a-number 'mesokurtic'.
C5_Classification ==
  pc = "done" =>
    LET sk == moments.skew
        ku == moments.excess_kurtosis
    IN  /\ err = "none"
        /\ Len(console) >= 3
        /\ Len(LastLine) = 3
        /\ LastLine[1] = "The distribution is"
        /\ Gt(sk, 1, 2) => LastLine[2] = "right skewed"
        /\ Lt(sk, -1, 2) => LastLine[2] = "left skewed"
        /\ (~Gt(sk, 1, 2) /\ ~Lt(sk, -1, 2)) => LastLine[2] = "approximately symmetric"
        /\ sk \in {NotANumber, Rat(1, 2), Rat(-1, 2), Root(1, 4), Root(-1, 4)}
             => LastLine[2] = "approximately symmetric"
        /\ Gt(ku, 0, 1) => LastLine[3] = "leptokurtic"
        /\ Lt(ku, 0, 1) => LastLine[3] = "platykurtic"
        /\ (ku.nan \/ ku.num = 0) => LastLine[3] = "mesokurtic"

C5_Witness ==
  /\ pc = "done"
  /\ moments.skew = Rat(1, 2)
  /\ moments.excess_kurtosis = NotANumber
  /\ LastLine = <<"The distribution is", "approximately symmetric", "mesokurtic">>

\* C6 as claimed: after preprocessing returns, the table object the caller
\* passed in is as it was read: same rows, same columns, same cells.
C6_CallerTableUntouched == Returned => arg = csv

\* C6 as amended: after preprocessing returns, the table object the caller
\* passed in has the same rows under the same index labels and the same
\* columns (no Severity_Num), and every cell as before, except that its
\* 'Accident Date', 'Number_of_Casualties' and 'Number_of_Vehicles' cells hold
\* the converted values (Timestamp or NaT, number or NaN).
C6_CallerTableConverted ==
  Returned =>
    /\ arg.cols = csv.cols
    /\ Len(arg.rows) = Len(csv.rows)
    /\ \A i \in 1..Len(arg.rows) :
         LET o == csv.rows[i]
         IN  /\ arg.rows[i] = [o EXCEPT !.date = arg.rows[i].date,
                                        !.cas = arg.rows[i].cas,
                                        !.veh = arg.rows[i].veh]
             /\ arg.rows[i].date.k \in {"date", "nat"}
             /\ arg.rows[i].cas.k \in {"num", "nan"}
             /\ arg.rows[i].veh.k \in {"num", "nan"}
             /\ (arg.rows[i].date.k = "date") = (o.date.k = "text"
                                                  /\ ValidDate(o.date.d, o.date.m, o.date.y))
             /\ (arg.rows[i].cas.k = "num") = (o.cas.k = "text" /\ IsNumeral(o.cas.s))
             /\ (arg.rows[i].veh.k = "num") = (o.veh.k = "text" /\ IsNumeral(o.veh.s))

C6_Witness ==
  /\ Returned
  /\ Len(arg.rows) = 3
  /\ Len(df.rows) = 1
  /\ arg.rows[1].date = Timestamp(15, 3, 2021)
  /\ arg.rows[2].date = NaT
  /\ arg.rows[3].cas = NaN
  /\ csv.rows[1].date = DateText(15, 3, 2021)

\* the numbers of the analysed column, once statistical_analysis has acted on
\* a table
Analysed == IF Returned /\ pc # "analysis" THEN Values(Column(df, col)) ELSE <<>>

AnalysisActed == Returned /\ pc # "analysis"

\* C7 as claimed: for a column with fewer than 2 values statistical_analysis
\* fails with InsufficientData and hands no moments tuple on.
C7_InsufficientDataRaised ==
  (AnalysisActed /\ Len(Analysed) < 2) =>
    /\ pc = "failed"
    /\ err = "InsufficientData"
    /\ ~moments.set

\* C7 as amended: for a column with fewer than 2 values statistical_analysis
\* raises nothing and returns a moments tuple whose standard deviation is
\* not-a-number, and whose mean is not-a-number for the empty column and the
\* single value for the one-value column; the tuple is handed on to writing.
C7_DegenerateTupleReturned ==
  (AnalysisActed /\ Len(Analysed) < 2) =>
    /\ pc \in {"writing", "done"}
    /\ err = "none"
    /\ moments.set
    /\ moments.stddev.nan
    /\ Len(Analysed) = 0 => moments.mean.nan
    /\ Len(Analysed) = 1 => moments.mean = Rat(Analysed[1], 1)
    /\ pc = "done" => Len(console) = 3

C7_Witness ==
  /\ pc = "done"
  /\ Len(Analysed) = 1
  /\ moments.mean = Rat(2, 1)
  /\ moments.stddev.nan

FourColumns == {AccidentDate, AccidentSeverity, NumberOfCasualties, NumberOfVehicles}

PreprocessingActed == pc \notin {"ingest", "preprocess"} /\ err # "FileNotFoundError"

\* C8 as claimed: when any one of the five required columns is not in the file,
\* preprocessing itself fails and returns no table, and no later stage runs.
C8_MissingColumnFailsPreprocessing ==
  \A c \in RequiredColumns :
    (c \notin csv.cols /\ PreprocessingActed) =>
      /\ pc = "failed"
      /\ err = "KeyError"
      /\ ~Returned
      /\ files = {}
      /\ ~moments.set

\* C8 as amended: when 'Accident Date', 'Accident_Severity',
\* 'Number_of_Casualties' or 'Number_of_Vehicles' is not in the file,
\* preprocessing itself fails with the missing-column error (KeyError),
\* returns no table and prints nothing, and no later stage runs; when
\* 'Light_Conditions' is not in the file preprocessing succeeds, prints its
\* summary and returns the cleaned table, the run fails in the plot stage (at
\* the categorical plot at the latest), and the moments computation and the
\* interpretation never run.
C8_MissingColumnFailure ==
  /\ \A c \in FourColumns :
       (c \notin csv.cols /\ PreprocessingActed) =>
         /\ pc = "failed"
         /\ err = "KeyError"
         /\ ~Returned
         /\ console = <<>>
         /\ files = {}
         /\ ~moments.set
  /\ (LightConditions \notin csv.cols /\ PreprocessingActed) =>
         /\ Returned
         /\ console = Summary
         /\ pc \in {"relational", "statistical", "categorical", "failed"}
         /\ pc = "failed" => err \in {"ValueError", "OSError"}
         /\ "categorical_plot.png" \notin files
         /\ ~moments.set

C8_Witness ==
  /\ LightConditions \notin csv.cols
  /\ pc = "failed"
  /\ err = "ValueError"
  /\ files = {"relational_plot.png", "statistical_plot.png"}
  /\ Len(df.rows) = 2

\* C9: for a column of n >= 2 identical values statistical_analysis raises
\* nothing and returns the value as mean, 0 as standard deviation, and
\* not-a-number as skewness and as excess kurtosis.
C9_ConstantColumn ==
  (AnalysisActed /\ Len(Analysed) >= 2
     /\ \A i \in 1..Len(Analysed) : Analysed[i] = Analysed[1]) =>
    /\ err = "none"
    /\ pc # "failed"
    /\ moments.set
    /\ ~moments.mean.nan
    /\ ~moments.mean.root
    /\ moments.mean.num = Analysed[1] * moments.mean.den
    /\ IsZero(moments.stddev)
    /\ moments.skew = NotANumber
    /\ moments.excess_kurtosis = NotANumber

C9_Witness ==
  /\ pc = "writing"
  /\ Analysed = <<2, 2, 2>>
  /\ IsZero(moments.stddev)
  /\ moments.skew.nan

Rank(p) ==
  CASE p = "ingest" -> 0
    [] p = "preprocess" -> 1
    [] p = "relational" -> 2
    [] p = "statistical" -> 3
    [] p = "categorical" -> 4
    [] p = "analysis" -> 5
    [] p = "writing" -> 6
    [] p = "done" -> 7
    [] OTHER -> 8

IsPrefix(a, b) == Len(a) <= Len(b) /\ SubSeq(b, 1, Len(a)) = a

AllPlots == {"relational_plot.png", "statistical_plot.png", "categorical_plot.png"}

\* what has been produced so far shows the order of the stages
StagesInOrder ==
  /\ Returned => arg.cols # {}
  /\ files # {} => (Returned /\ IsPrefix(Summary, console))
  /\ moments.set => files = AllPlots
  /\ Len(console) > 2 => (moments.set /\ Len(console) = 5)
  /\ IsPrefix(console, Summary \o writing(moments, col))
  /\ pc = "done" => (console = Summary \o writing(moments, col) /\ files = AllPlots)
  /\ pc = "failed" => err # "none"

\* a step runs the one next stage to its end or fails, and keeps what is
\* written and printed; a failed run takes no step
StageStep ==
  /\ pc \notin {"failed", "done"}
  /\ pc' = "failed" \/ Rank(pc') = Rank(pc) + 1
  /\ files \subseteq files'
  /\ IsPrefix(console, console')
  /\ files' # files => pc \in {"relational", "statistical", "categorical"}
  /\ moments' # moments => pc = "analysis"
  /\ console' # console => pc \in {"preprocess", "writing"}

\* C10: the stages run in the order ingest, preprocess, the three plots, the
\* moments of 'Number_of_Casualties', interpretation, each after the one
\* before has ended; the console shows the summary statistics, then the
\* correlation matrix, then the interpretation lines; after a failure no
\* later stage runs and the plot files written stay.
C10_FixedOrder == []StagesInOrder /\ [][StageStep]_vars

C10_Witness ==
  /\ pc = "done"
  /\ files = AllPlots
  /\ Len(console) = 5
  /\ console[1] = <<"describe">>
  /\ console[2] = <<"corr">>
  /\ console[3] = <<"For the attribute", NumberOfCasualties>>
  /\ moments.set

====
